---------------------------- MODULE Spec2Model ----------------------------
(***************************************************************************)
(* A model of option_chain.py: the annualized-return calculator, the       *)
(* per-expiration-date fetch/filter/concatenate loop, the pivot table and  *)
(* the per-ticker main loop.                                               *)
(*                                                                         *)
(* Numbers.  The program computes in IEEE-754 doubles (pandas columns).    *)
(* A number is modelled as a fraction [n, d] in lowest terms with d >= 0:  *)
(* d > 0 is the finite value n/d, and d = 0 is one of the three special    *)
(* doubles: n = 1 is +inf, n = -1 is -inf, n = 0 is NaN.  Finite results   *)
(* are exact (rounding is not modelled); division by zero, inf and NaN     *)
(* follow IEEE-754.  A zero divisor in the program is always +0.0 (x - x,  *)
(* or the integer 0), so the sign of a zero is not modelled.               *)
(*                                                                         *)
(* Tables.  A DataFrame is a sequence of rows; a row is a record of its    *)
(* columns plus idx, its index label.                                      *)
(***************************************************************************)
EXTENDS Integers, Sequences, FiniteSets, TLC

VARIABLES
    pc,                 \* position of the program
    now,                \* the clock: the day pd.Timestamp.now() falls in
    quota,              \* rows the quote source may still return in this run
    \* calculate_annualized_return
    option_data,        \* the table it is given, then the table it returns
    type,               \* 'calls' or 'puts'
    \* fetch_and_calculate_option_returns
    ticker_symbol, return_filter, in_the_money,
    stock_price, expiration_dates,
    di,                 \* position of the loop over expiration_dates
    option_chain,       \* the chain of the date processed last
    days_to_expiration,
    all_calls, all_puts,
    result,             \* what the call returned
    exception,          \* the exception raised, "none" when there is none
    \* build_pivot_table
    data, pivot,
    \* __main__
    tickers,
    ti,                 \* position of the loop over tickers
    puts, calls,
    reports,            \* the <ticker>_option_returns.txt files written
    pivots,             \* the <ticker>_{puts,calls}_pivot.csv files written
    log                 \* history: the requests made to the quote source

calc_vars == <<option_data, type>>

fetch_vars ==
    <<ticker_symbol, return_filter, in_the_money, stock_price, expiration_dates,
      di, option_chain, days_to_expiration, all_calls, all_puts, result, exception>>

pivot_vars == <<data, pivot>>

main_vars == <<tickers, ti, puts, calls, reports, pivots>>

vars == <<pc, now, quota, calc_vars, fetch_vars, pivot_vars, main_vars, log>>

-----------------------------------------------------------------------------
(* Doubles *)

RECURSIVE GCD(_, _)
GCD(a, b) == IF b = 0 THEN a ELSE GCD(b, a % b)

Abs(x) == IF x < 0 THEN -x ELSE x

Sign(x) == IF x < 0 THEN -1 ELSE IF x > 0 THEN 1 ELSE 0

\* The double n/d, d >= 0, in lowest terms.
Norm(n, d) ==
    IF d = 0 THEN [n |-> Sign(n), d |-> 0]
    ELSE LET g == GCD(Abs(n), d) IN [n |-> n \div g, d |-> d \div g]

N(i) == [n |-> i, d |-> 1]

NaN == [n |-> 0, d |-> 0]

IsNaN(x) == x.d = 0 /\ x.n = 0

IsFinite(x) == x.d > 0

Neg(x) == [n |-> -x.n, d |-> x.d]

\* x + y: NaN is absorbing, inf + -inf is NaN.
FAdd(x, y) ==
    IF IsNaN(x) \/ IsNaN(y) THEN NaN
    ELSE IF x.d = 0 /\ y.d = 0 THEN (IF x.n = y.n THEN x ELSE NaN)
    ELSE IF x.d = 0 THEN x
    ELSE IF y.d = 0 THEN y
    ELSE Norm(x.n * y.d + y.n * x.d, x.d * y.d)

FSub(x, y) == FAdd(x, Neg(y))

\* x * y: inf * 0 is NaN.
FMul(x, y) == Norm(x.n * y.n, x.d * y.d)

\* x / y: a nonzero x over 0 is inf of x's sign, 0/0 and inf/inf are NaN.
FDiv(x, y) ==
    LET s == IF y.n < 0 THEN -1 ELSE 1
    IN  Norm(s * x.n * y.d, s * x.d * y.n)

\* x > y on doubles: false when either is NaN.
FGt(x, y) ==
    IF IsNaN(x) \/ IsNaN(y) THEN FALSE
    ELSE IF x.d = 0 /\ y.d = 0 THEN x.n > y.n
    ELSE IF x.d = 0 THEN x.n > 0
    ELSE IF y.d = 0 THEN y.n < 0
    ELSE x.n * y.d > y.n * x.d

-----------------------------------------------------------------------------
(* calculate_annualized_return *)

\* Series.replace([inf, -inf], 0).  Both this call and fillna are made with
\* inplace=True on data['Annualized Return']; they are modelled as updating
\* the column of the frame, which is pandas' behaviour without copy-on-write.
replace_inf(x) == IF x.d = 0 /\ x.n # 0 THEN N(0) ELSE x

fillna_skipped(x) == x

\* Series.fillna(0)
fillna(x) == IF IsNaN(x) THEN N(0) ELSE x

\* bid / strike * 365 / days_to_expiration * 100
puts_return_on_strike(row, days) ==
    FMul(FDiv(FMul(FDiv(row.bid, row.strike), N(365)), N(days)), N(100))

\* bid / (strike - bid) * 365 / days_to_expiration * 100
puts_return(row, days) ==
    FMul(FDiv(FMul(FDiv(row.bid, FSub(row.strike, row.bid)), N(365)), N(days)), N(100))

\* (stock_price - bid - strike) / stock_price
puts_distance(row, price) ==
    FDiv(FSub(FSub(price, row.bid), row.strike), price)

\* bid / stock_price * 365 / days_to_expiration * 100
calls_return(row, price, days) ==
    FMul(FDiv(FMul(FDiv(row.bid, price), N(365)), N(days)), N(100))

\* (strike + bid - stock_price) / stock_price * 100
calls_distance(row, price) ==
    FMul(FDiv(FSub(FAdd(row.strike, row.bid), price), price), N(100))

\* The row with its two derived columns, the return clamped.
with_returns(row, ret, dist) ==
    [idx |-> row.idx, strike |-> row.strike, bid |-> row.bid,
     inTheMoney |-> row.inTheMoney,
     Annualized_Return |-> fillna(replace_inf(ret)),
     Distance_Perc |-> dist]

calculate_annualized_return(frame, price, days, side) ==
    [i \in 1..Len(frame) |->
        IF side = "puts"
        THEN with_returns(frame[i], puts_return(frame[i], days),
                          puts_distance(frame[i], price))
        ELSE with_returns(frame[i], calls_return(frame[i], price, days),
                          calls_distance(frame[i], price))]

-----------------------------------------------------------------------------
(* Tables *)

RECURSIVE Flatten(_)
Flatten(frames) ==
    IF frames = <<>> THEN <<>> ELSE Head(frames) \o Flatten(Tail(frames))

\* The row relabelled i.
Relabel(row, i) == [row EXCEPT !.idx = i]

\* The frames last to first.
RECURSIVE Reverse(_)
Reverse(frames) ==
    IF frames = <<>> THEN <<>> ELSE Append(Reverse(Tail(frames)), Head(frames))

concat_last_first(frames) ==
    LET rows == Flatten(Reverse(frames)) IN [i \in 1..Len(rows) |-> Relabel(rows[i], i - 1)]

\* pd.concat(frames, ignore_index=True)
concat(frames) ==
    LET rows == Flatten(frames) IN [i \in 1..Len(rows) |-> Relabel(rows[i], i - 1)]

-----------------------------------------------------------------------------
(* The filters and tags of fetch_and_calculate_option_returns *)

calls_threshold == N(7)

puts_threshold == N(15)

\* frame[frame["Annualized Return"] >= threshold]
at_or_above_threshold(frame, threshold) ==
    SelectSeq(frame, LAMBDA row : ~FGt(threshold, row.Annualized_Return))

\* frame[frame["Annualized Return"] > threshold]
above_threshold(frame, threshold) ==
    SelectSeq(frame, LAMBDA row : FGt(row.Annualized_Return, threshold))

\* frame[frame["inTheMoney"] == True]
in_the_money_only(frame) == SelectSeq(frame, LAMBDA row : row.inTheMoney = TRUE)

\* frame[frame["inTheMoney"] == False]
out_of_the_money(frame) == SelectSeq(frame, LAMBDA row : row.inTheMoney = FALSE)

\* frame["Expiration Date"] = date; frame["Stock Price"] = stock_price
tagged(frame, date, price) ==
    [i \in 1..Len(frame) |->
        [idx |-> frame[i].idx, strike |-> frame[i].strike, bid |-> frame[i].bid,
         inTheMoney |-> frame[i].inTheMoney,
         Annualized_Return |-> frame[i].Annualized_Return,
         Distance_Perc |-> frame[i].Distance_Perc,
         Expiration_Date |-> date, Stock_Price |-> price]]

\* One side of one expiration date: the optional filters, then the tags.
filtered(frame, threshold, date, price, by_return, with_itm) ==
    LET kept == IF by_return THEN above_threshold(frame, threshold) ELSE frame
        otm  == IF with_itm THEN kept ELSE out_of_the_money(kept)
    IN  tagged(otm, date, price)

\* (pd.to_datetime(date) - pd.Timestamp.now()).days: midnight of the date
\* minus a time within the day `today`, rounded down.
days_until(date, today) == date - today - 1

-----------------------------------------------------------------------------
(* build_pivot_table *)

RECURSIVE SumOf(_)
SumOf(values) == IF values = <<>> THEN N(0) ELSE FAdd(Head(values), SumOf(Tail(values)))

\* aggfunc='first'
first(values) == IF values = <<>> THEN NaN ELSE Head(values)

\* aggfunc='mean': the mean of the values present, NaN when there is none.
mean(values) ==
    LET present == SelectSeq(values, LAMBDA v : ~IsNaN(v))
    IN  IF present = <<>> THEN NaN ELSE FDiv(SumOf(present), N(Len(present)))

FLt(x, y) == FGt(y, x)

\* The members of a finite set of doubles, ascending.
RECURSIVE SortedNums(_)
SortedNums(S) ==
    IF S = {} THEN <<>>
    ELSE LET least == CHOOSE x \in S : \A y \in S : ~FLt(y, x)
         IN  <<least>> \o SortedNums(S \ {least})

\* The members of a finite set of integers, ascending.
RECURSIVE SortedInts(_)
SortedInts(S) ==
    IF S = {} THEN <<>>
    ELSE LET least == CHOOSE x \in S : \A y \in S : x <= y
         IN  <<least>> \o SortedInts(S \ {least})

\* The column of a metric.
column(row, metric) == IF metric = "bid" THEN row.bid ELSE row.Annualized_Return

\* The metric's values of the rows of one strike and one expiration date.
group(table, strike, date, metric) ==
    LET rows == SelectSeq(table, LAMBDA row : row.strike = strike /\ row.Expiration_Date = date)
    IN  [i \in 1..Len(rows) |-> column(rows[i], metric)]

\* The (date, metric) columns: by date, then by metric name; a column with no
\* value at all is dropped (dropna=True).
RECURSIVE columns_of(_, _, _)
columns_of(table, strikes, dates) ==
    IF dates = <<>> THEN <<>>
    ELSE LET both == << <<Head(dates), "Annualized Return">>, <<Head(dates), "bid">> >>
             kept == SelectSeq(both, LAMBDA c :
                        \E s \in strikes : ~IsNaN(mean(group(table, s, c[1], c[2]))))
         IN  kept \o columns_of(table, strikes, Tail(dates))

build_pivot_table(table) ==
    LET strikes == {table[i].strike : i \in 1..Len(table)}
        dates   == {table[i].Expiration_Date : i \in 1..Len(table)}
        columns == columns_of(table, strikes, SortedInts(dates))
    IN  [index   |-> SortedNums(strikes),
         columns |-> columns,
         cell    |-> [k \in strikes \X {columns[j] : j \in 1..Len(columns)} |->
                        mean(group(table, k[1], k[2][1], k[2][2]))]]

-----------------------------------------------------------------------------
(* Inputs *)

MaxRows == 3

MaxTickers == 2

MaxRunRows == 2

\* Sequences over S of length at most n.
SeqsUpTo(S, n) == UNION {[1..k -> S] : k \in 0..n}

\* A table as the quote source returns it: rows labelled 0, 1, ...
Frame(quotes) ==
    [i \in 1..Len(quotes) |->
        [idx |-> i - 1, strike |-> quotes[i].strike, bid |-> quotes[i].bid,
         inTheMoney |-> quotes[i].inTheMoney]]

CalcQuotes ==
    [strike : {N(2), N(50)}, bid : {NaN, N(0), N(2), N(3)}, inTheMoney : {FALSE}]

CalcPrices == {N(0), N(100)}

CalcDays == {-1, 0, 30, 45}

Tickers == {"PDD", "EBAY", "GOOG"}

\* Ticker lists without a repeated ticker.
TickerLists ==
    {t \in SeqsUpTo(Tickers, MaxTickers) : \A i, j \in 1..Len(t) : t[i] = t[j] => i = j}

Clock == {0}

\* What stock.info['currentPrice'] holds for a ticker that has a price.
currentPrice(ticker) == IF ticker = "PDD" THEN N(365) ELSE N(100)

\* What stock.options may return: expiration dates (day numbers), ascending.
ExpirationLists == {<<>>, <<101>>, <<1, 101>>}

CallQuotes == [strike : {N(400)}, bid : {N(5), N(7), N(8)}, inTheMoney : BOOLEAN]

PutQuotes == [strike : {N(53), N(76)}, bid : {N(3)}, inTheMoney : BOOLEAN]

\* The chains stock.option_chain(date) may return with `left` rows to give.
Chains(left) ==
    UNION {[calls : [1..k -> CallQuotes], puts : SeqsUpTo(PutQuotes, left - k)] :
              k \in 0..left}

NoChain == [calls |-> <<>>, puts |-> <<>>]

NoResult == [is_none |-> TRUE, puts |-> <<>>, calls |-> <<>>]

NoPivot == [index |-> <<>>, columns |-> <<>>, cell |-> <<>>]

CalcIdle == option_data = <<>> /\ type = "calls"

\* The locals of a call of fetch_and_calculate_option_returns not yet made.
FetchLocalsIdle ==
    /\ expiration_dates = <<>> /\ di = 1
    /\ option_chain = NoChain
    /\ all_calls = <<>> /\ all_puts = <<>>
    /\ result = NoResult /\ exception = "none"

FetchIdle ==
    /\ ticker_symbol = "" /\ return_filter = FALSE /\ in_the_money = FALSE
    /\ stock_price = N(0) /\ days_to_expiration = 0
    /\ FetchLocalsIdle

PivotIdle == data = <<>> /\ pivot = NoPivot

MainIdle ==
    /\ tickers = <<>> /\ ti = 1 /\ puts = <<>> /\ calls = <<>>
    /\ reports = {} /\ pivots = {}

-----------------------------------------------------------------------------
(* The calculator on its own *)

InitCalc ==
    /\ pc = "calc_call"
    /\ option_data \in {Frame(q) : q \in SeqsUpTo(CalcQuotes, MaxRows)}
    /\ type \in {"calls", "puts"}
    /\ stock_price \in CalcPrices
    /\ days_to_expiration \in CalcDays
    /\ ticker_symbol = "" /\ return_filter = FALSE /\ in_the_money = FALSE
    /\ FetchLocalsIdle /\ PivotIdle /\ MainIdle
    /\ now = 0 /\ quota = 0 /\ log = <<>>

CalculateAnnualizedReturn ==
    /\ pc = "calc_call"
    /\ option_data' = calculate_annualized_return(option_data, stock_price,
                                                  days_to_expiration, type)
    /\ pc' = "calc_return"
    /\ UNCHANGED <<now, quota, type, fetch_vars, pivot_vars, main_vars, log>>

SpecCalc == InitCalc /\ [][CalculateAnnualizedReturn]_vars

-----------------------------------------------------------------------------
(* The pivot table on its own *)

\* Rows as __main__ hands them over: a numeric bid and a return (the rows
\* with a missing bid have a return of 0, and the return filter drops them).
PivotRows ==
    [strike : {N(50), N(55)}, Expiration_Date : {1, 101},
     bid : {N(2), N(3)}, Annualized_Return : {N(8), N(20)}]

PivotFrame(rows) ==
    [i \in 1..Len(rows) |->
        [idx |-> i - 1, strike |-> rows[i].strike, bid |-> rows[i].bid,
         inTheMoney |-> FALSE,
         Annualized_Return |-> rows[i].Annualized_Return,
         Distance_Perc |-> N(0),
         Expiration_Date |-> rows[i].Expiration_Date, Stock_Price |-> N(100)]]

InitPivot ==
    /\ pc = "pivot_call"
    /\ data \in {PivotFrame(r) : r \in SeqsUpTo(PivotRows, MaxRows)}
    /\ pivot = NoPivot
    /\ now = 0 /\ quota = 0 /\ log = <<>>
    /\ CalcIdle /\ FetchIdle /\ MainIdle

BuildPivotTable ==
    /\ pc = "pivot_call"
    /\ pivot' = build_pivot_table(data)
    /\ pc' = "pivot_return"
    /\ UNCHANGED <<now, quota, calc_vars, fetch_vars, data, main_vars, log>>

SpecPivot == InitPivot /\ [][BuildPivotTable]_vars

-----------------------------------------------------------------------------
(* fetch_and_calculate_option_returns *)

\* A request to the quote source and its answer: for "info" (the price and
\* the expiration dates, date 0) the dates returned, for "chain" the date.
Request(op, date, ok, dates) ==
    [op |-> op, ticker |-> ticker_symbol, date |-> date, ok |-> ok, dates |-> dates]

\* stock.info['currentPrice'] finds no price (KeyError), or the request for
\* the price or for the expiration dates fails.
FetchInfoRaises ==
    /\ pc = "fetch_info"
    /\ \E e \in {"KeyError", "FetchError"} : exception' = e
    /\ pc' = "fetch_raised"
    /\ log' = Append(log, Request("info", 0, FALSE, <<>>))
    /\ UNCHANGED <<now, quota, calc_vars, ticker_symbol, return_filter, in_the_money,
                   stock_price, expiration_dates, di, option_chain,
                   days_to_expiration, all_calls, all_puts, result,
                   pivot_vars, main_vars>>

\* The ticker has no expiration dates: the call prints and returns None.
FetchNoOptions ==
    /\ pc = "fetch_info"
    /\ stock_price' = currentPrice(ticker_symbol)
    /\ expiration_dates' = <<>>
    /\ result' = NoResult
    /\ pc' = "fetch_returned"
    /\ log' = Append(log, Request("info", 0, TRUE, <<>>))
    /\ UNCHANGED <<now, quota, calc_vars, ticker_symbol, return_filter, in_the_money,
                   di, option_chain, days_to_expiration, all_calls, all_puts,
                   exception, pivot_vars, main_vars>>

\* The price and the expiration dates arrive; the loop starts on empty lists.
FetchInfo ==
    /\ pc = "fetch_info"
    /\ stock_price' = currentPrice(ticker_symbol)
    /\ \E dates \in ExpirationLists \ {<<>>} : expiration_dates' = dates
    /\ all_calls' = <<>>
    /\ all_puts' = <<>>
    /\ di' = 1
    /\ pc' = "fetch_loop"
    /\ log' = Append(log, Request("info", 0, TRUE, expiration_dates'))
    /\ UNCHANGED <<now, quota, calc_vars, ticker_symbol, return_filter, in_the_money,
                   option_chain, days_to_expiration, result, exception,
                   pivot_vars, main_vars>>

\* for date in expiration_dates, last date first
date_from_last(dates, i) == dates[Len(dates) + 1 - i]

\* for date in expiration_dates: the date of pass i
date_at(dates, i) == dates[i]

\* stock.option_chain(date) fails, and the loop ends on what it has.
ProcessDateGivesUp ==
    /\ pc = "fetch_loop"
    /\ di <= Len(expiration_dates)
    /\ di' = Len(expiration_dates) + 1
    /\ log' = Append(log, Request("chain", date_at(expiration_dates, di), FALSE, <<>>))
    /\ UNCHANGED <<pc, now, quota, calc_vars, ticker_symbol, return_filter, in_the_money,
                   stock_price, expiration_dates, option_chain,
                   days_to_expiration, all_calls, all_puts, result, exception,
                   pivot_vars, main_vars>>

\* stock.option_chain(date) fails.
ProcessDateRaises ==
    /\ pc = "fetch_loop"
    /\ di <= Len(expiration_dates)
    /\ exception' = "FetchError"
    /\ pc' = "fetch_raised"
    /\ log' = Append(log, Request("chain", date_at(expiration_dates, di), FALSE, <<>>))
    /\ UNCHANGED <<now, quota, calc_vars, ticker_symbol, return_filter, in_the_money,
                   stock_price, expiration_dates, di, option_chain,
                   days_to_expiration, all_calls, all_puts, result,
                   pivot_vars, main_vars>>

\* One pass of the loop: the chain of the date, its returns, filters and tags.
ProcessDate ==
    /\ pc = "fetch_loop"
    /\ di <= Len(expiration_dates)
    /\ \E chain \in Chains(quota) :
        LET date  == date_at(expiration_dates, di)
            days  == days_until(date, now)
            ccalc == calculate_annualized_return(Frame(chain.calls), stock_price, days, "calls")
            pcalc == calculate_annualized_return(Frame(chain.puts), stock_price, days, "puts")
        IN  /\ days_to_expiration' = days
            /\ option_chain' = [calls |-> ccalc, puts |-> pcalc]
            /\ all_calls' = Append(all_calls,
                    filtered(ccalc, calls_threshold, date, stock_price,
                             return_filter, in_the_money))
            /\ all_puts' = Append(all_puts,
                    filtered(pcalc, puts_threshold, date, stock_price,
                             return_filter, in_the_money))
            /\ quota' = quota - Len(chain.calls) - Len(chain.puts)
    /\ di' = di + 1
    /\ log' = Append(log, Request("chain", date_at(expiration_dates, di), TRUE, <<>>))
    /\ UNCHANGED <<pc, now, calc_vars, ticker_symbol, return_filter, in_the_money,
                   stock_price, expiration_dates, result, exception,
                   pivot_vars, main_vars>>

\* After the last date: the two concatenations, returned puts first.
FetchReturn ==
    /\ pc = "fetch_loop"
    /\ di > Len(expiration_dates)
    /\ result' = [is_none |-> FALSE, puts |-> concat(all_puts), calls |-> concat(all_calls)]
    /\ pc' = "fetch_returned"
    /\ UNCHANGED <<now, quota, calc_vars, ticker_symbol, return_filter, in_the_money,
                   stock_price, expiration_dates, di, option_chain,
                   days_to_expiration, all_calls, all_puts, exception,
                   pivot_vars, main_vars, log>>

FetchNext ==
    \/ FetchInfoRaises
    \/ FetchNoOptions
    \/ FetchInfo
    \/ ProcessDateRaises
    \/ ProcessDate
    \/ FetchReturn

\* One call of the function, with any arguments.
InitFetch ==
    /\ pc = "fetch_info"
    /\ now \in Clock
    /\ quota = MaxRows
    /\ CalcIdle /\ PivotIdle /\ MainIdle
    /\ ticker_symbol \in {"PDD", "EBAY"}
    /\ return_filter \in BOOLEAN
    /\ in_the_money \in BOOLEAN
    /\ stock_price = N(0) /\ days_to_expiration = 0
    /\ FetchLocalsIdle
    /\ log = <<>>

SpecFetch == InitFetch /\ [][FetchNext]_vars

-----------------------------------------------------------------------------
(* __main__ *)

\* for ticker in tickers: the call, with return_filter=True, in_the_money=False
MainCall ==
    /\ pc = "main_loop"
    /\ ti <= Len(tickers)
    /\ ticker_symbol' = tickers[ti]
    /\ return_filter' = TRUE
    /\ in_the_money' = FALSE
    /\ pc' = "fetch_info"
    /\ UNCHANGED <<now, quota, calc_vars, stock_price, expiration_dates, di,
                   option_chain, days_to_expiration, all_calls, all_puts, result,
                   exception, pivot_vars, main_vars, log>>

\* The loop is over.
MainExit ==
    /\ pc = "main_loop"
    /\ ti > Len(tickers)
    /\ pc' = "done"
    /\ UNCHANGED <<now, quota, calc_vars, fetch_vars, pivot_vars, main_vars, log>>

\* Nothing catches what the call raises: the program ends.
MainUncaught ==
    /\ pc = "fetch_raised"
    /\ tickers # <<>>
    /\ pc' = "crashed"
    /\ UNCHANGED <<now, quota, calc_vars, fetch_vars, pivot_vars, main_vars, log>>

\* puts, calls = <what the call returned>; None does not unpack (TypeError).
\* The call's locals are gone.
MainUnpack ==
    /\ pc = "fetch_returned"
    /\ tickers # <<>>
    /\ IF result.is_none
       THEN /\ exception' = "TypeError"
            /\ pc' = "crashed"
            /\ UNCHANGED <<puts, calls>>
       ELSE /\ puts' = result.puts
            /\ calls' = result.calls
            /\ pc' = "write_report"
            /\ UNCHANGED exception
    /\ expiration_dates' = <<>>
    /\ di' = 1
    /\ option_chain' = NoChain
    /\ all_calls' = <<>>
    /\ all_puts' = <<>>
    /\ result' = NoResult
    /\ UNCHANGED <<now, quota, calc_vars, ticker_symbol, return_filter, in_the_money,
                   stock_price, days_to_expiration,
                   pivot_vars, tickers, ti, reports, pivots, log>>

\* <ticker>_option_returns.txt: the header, the calls, the puts.
report_text(ticker, c, p) ==
    << [line |-> "--- Ticker: ---", ticker |-> ticker, table |-> <<>>],
       [line |-> "Calls with Annualized Returns:", ticker |-> ticker, table |-> c],
       [line |-> "Puts with Annualized Returns:", ticker |-> ticker, table |-> p] >>

WriteReport ==
    /\ pc = "write_report"
    /\ reports' = reports \cup
          {[ticker |-> tickers[ti], file |-> "_option_returns.txt",
            text |-> report_text(tickers[ti], calls, puts)]}
    /\ pc' = "write_pivots"
    /\ UNCHANGED <<now, quota, calc_vars, fetch_vars, pivot_vars,
                   tickers, ti, puts, calls, pivots, log>>

\* The two pivot tables and their CSV files; then the next ticker.
WritePivots ==
    /\ pc = "write_pivots"
    /\ pivots' = pivots \cup
          {[ticker |-> tickers[ti], file |-> "_puts_pivot.csv",
            table |-> build_pivot_table(puts)],
           [ticker |-> tickers[ti], file |-> "_calls_pivot.csv",
            table |-> build_pivot_table(calls)]}
    /\ ti' = ti + 1
    /\ pc' = "main_loop"
    /\ UNCHANGED <<now, quota, calc_vars, fetch_vars, pivot_vars,
                   tickers, puts, calls, reports, log>>

Init ==
    /\ pc = "main_loop"
    /\ now \in Clock
    /\ quota = MaxRunRows
    /\ CalcIdle /\ FetchIdle /\ PivotIdle
    /\ tickers \in TickerLists
    /\ ti = 1 /\ puts = <<>> /\ calls = <<>>
    /\ reports = {} /\ pivots = {}
    /\ log = <<>>

Next ==
    \/ MainCall
    \/ MainExit
    \/ FetchNext
    \/ MainUncaught
    \/ MainUnpack
    \/ WriteReport
    \/ WritePivots

Spec == Init /\ [][Next]_vars

-----------------------------------------------------------------------------
(* Claims about the calculator (checked under SpecCalc) *)

Returned == pc = "calc_return"

Rows == 1..Len(option_data)

\* The formula of the row's side divides by zero or reads a missing bid.
Undefined(row) ==
    \/ IsNaN(row.bid)
    \/ days_to_expiration = 0
    \/ type = "puts" /\ row.strike = row.bid
    \/ type = "calls" /\ stock_price = N(0)

\* C1: after calculate_annualized_return, for calls and for puts, every row's
\* Annualized Return is a finite number, never NaN or +-inf, also for a put
\* with strike = bid, for a current price of 0, a bid of 0 and 0 days to
\* expiration; and a row whose formula is undefined stores 0.
C1_ReturnFiniteOrZero ==
    Returned =>
        \A i \in Rows :
            /\ IsFinite(option_data[i].Annualized_Return)
            /\ Undefined(option_data[i]) => option_data[i].Annualized_Return = N(0)

\* A call batch at price 0 with 0 days to expiration has been calculated: a
\* row with bid 0 (0/0), a row with a bid of 3 (3/0) and a row with no bid.
C1_Witness ==
    /\ Returned
    /\ type = "calls" /\ stock_price = N(0) /\ days_to_expiration = 0
    /\ \E i \in Rows : option_data[i].bid = N(0)
    /\ \E i \in Rows : option_data[i].bid = N(3)
    /\ \E i \in Rows : IsNaN(option_data[i].bid)

\* Annualized Return to two decimals, in hundredths (x >= 0).
Hundredths(x) == (200 * x.n + x.d) \div (2 * x.d)

\* return * (strike - bid) * days = bid * 365 * 100
PutYield(row) ==
    FMul(FMul(row.Annualized_Return, FSub(row.strike, row.bid)), N(days_to_expiration))
        = FMul(row.bid, N(36500))

\* return * price * days = bid * 365 * 100
CallYield(row) ==
    FMul(FMul(row.Annualized_Return, stock_price), N(days_to_expiration))
        = FMul(row.bid, N(36500))

\* The rows C8 speaks of: a positive number of days and a defined quotient.
Defined(row) ==
    /\ days_to_expiration > 0
    /\ IsFinite(row.bid)
    /\ type = "puts" => row.strike # row.bid
    /\ type = "calls" => stock_price # N(0)

YieldStored ==
    \A i \in Rows :
        Defined(option_data[i]) =>
            IF type = "puts" THEN PutYield(option_data[i]) ELSE CallYield(option_data[i])

IsPutExample(row) ==
    type = "puts" /\ row.bid = N(2) /\ row.strike = N(50) /\ days_to_expiration = 30

IsCallExample(row) ==
    type = "calls" /\ row.bid = N(3) /\ stock_price = N(100) /\ days_to_expiration = 45

\* C8 as amended: for positive days and a numeric bid every row stores the
\* capital-at-risk yield of its side, bid / (strike - bid) * 365 / days * 100
\* for a put with strike # bid and bid / price * 365 / days * 100 for a call
\* with price # 0, with the one days value of the batch; the put bid=2,
\* strike=50, days=30 stores about 50.69 and the call bid=3, price=100,
\* days=45 stores about 24.33.
C8_YieldFormula ==
    Returned =>
        /\ YieldStored
        /\ \A i \in Rows :
            /\ IsPutExample(option_data[i]) =>
                   Hundredths(option_data[i].Annualized_Return) = 5069
            /\ IsCallExample(option_data[i]) =>
                   Hundredths(option_data[i].Annualized_Return) = 2433

\* Both examples' batches have been calculated, next to another row.
C8_Witness ==
    /\ Returned
    /\ Len(option_data) > 1
    /\ \E i \in Rows : IsPutExample(option_data[i]) \/ IsCallExample(option_data[i])

\* C8 as stated: the same formulas, with the examples' results given as about
\* 507.29 and about 243.33.
C8_AsStated ==
    Returned =>
        /\ YieldStored
        /\ \A i \in Rows :
            /\ IsPutExample(option_data[i]) =>
                   Hundredths(option_data[i].Annualized_Return) = 50729
            /\ IsCallExample(option_data[i]) =>
                   Hundredths(option_data[i].Annualized_Return) = 24333

-----------------------------------------------------------------------------
(* Claims about one call of fetch_and_calculate_option_returns (SpecFetch) *)

\* A pass of the loop has run: option_chain is the chain of the date passed
\* last, with its returns, and batch di - 1 of all_calls and all_puts is that
\* date's.
Processed == di > 1

HasReturned == pc = "fetch_returned" /\ ~result.is_none

Labels(frame) == {frame[i].idx : i \in 1..Len(frame)}

RowsOf(frame) == {frame[i] : i \in 1..Len(frame)}

\* x > t for a finite double x and an integer t.
Exceeds(x, t) == x.n > t * x.d

\* The row is not dropped for being in the money.
MoneyPass(row) == in_the_money \/ ~row.inTheMoney

\* The batch holds rows of the chain only, each once, in the chain's order.
FromChain(batch, chain) ==
    /\ \A i \in 1..Len(batch) :
          \E row \in RowsOf(chain) :
              /\ row.idx = batch[i].idx
              /\ row.strike = batch[i].strike
              /\ row.bid = batch[i].bid
              /\ row.inTheMoney = batch[i].inTheMoney
              /\ row.Annualized_Return = batch[i].Annualized_Return
    /\ \A i, j \in 1..Len(batch) : i < j => batch[i].idx < batch[j].idx

\* The return filter of one side, as C4 states it.
ReturnFilterExact(batch, chain, t) ==
    /\ FromChain(batch, chain)
    /\ return_filter =>
          /\ \A row \in RowsOf(batch) : Exceeds(row.Annualized_Return, t)
          /\ \A row \in RowsOf(chain) :
                Exceeds(row.Annualized_Return, t) /\ MoneyPass(row)
                    => row.idx \in Labels(batch)
    /\ ~return_filter =>
          \A row \in RowsOf(chain) : MoneyPass(row) => row.idx \in Labels(batch)

\* C4: with the return filter on, a date's batch holds exactly the rows of the
\* chain whose Annualized Return is strictly above the threshold, 7 for calls
\* and 15 for puts (a row at the threshold is dropped, none above it is
\* dropped by this filter); with the filter off no row is dropped for its
\* return.
C4_ReturnFilterStrict ==
    Processed =>
        /\ ReturnFilterExact(all_calls[di - 1], option_chain.calls, 7)
        /\ ReturnFilterExact(all_puts[di - 1], option_chain.puts, 15)

\* With the filter on, a call at 7 has been dropped next to a call above 7
\* that was kept.
C4_Witness ==
    /\ Processed /\ return_filter
    /\ \E row \in RowsOf(option_chain.calls) :
          row.Annualized_Return = N(7) /\ row.idx \notin Labels(all_calls[di - 1])
    /\ \E row \in RowsOf(option_chain.calls) :
          Exceeds(row.Annualized_Return, 7) /\ row.idx \in Labels(all_calls[di - 1])

\* The row passes the return filter of a side with threshold t.
ReturnPass(row, t) == ~return_filter \/ Exceeds(row.Annualized_Return, t)

\* The table holds the batch's row, label aside.
Holds(table, row) ==
    \E other \in RowsOf(table) : other = [row EXCEPT !.idx = other.idx]

\* The in-the-money rows of the chain that pass the return filter are in the
\* date's batch.
MoneyKept(batch, chain, t) ==
    \A row \in RowsOf(chain) :
        row.inTheMoney /\ ReturnPass(row, t) =>
            \E kept \in RowsOf(batch) : kept.idx = row.idx /\ kept.inTheMoney

\* C5: in what the call returns, calls and puts alike: with in_the_money
\* false no row is in the money; with in_the_money true every in-the-money
\* row of a chain that passes the return filter (or any, the filter off) is
\* there.
C5_InTheMoneyFilter ==
    /\ ~in_the_money =>
          /\ \A k \in 1..Len(all_calls) : \A row \in RowsOf(all_calls[k]) : ~row.inTheMoney
          /\ \A k \in 1..Len(all_puts) : \A row \in RowsOf(all_puts[k]) : ~row.inTheMoney
          /\ \A row \in RowsOf(result.calls) \cup RowsOf(result.puts) : ~row.inTheMoney
    /\ in_the_money /\ Processed =>
          /\ MoneyKept(all_calls[di - 1], option_chain.calls, 7)
          /\ MoneyKept(all_puts[di - 1], option_chain.puts, 15)
    /\ in_the_money /\ HasReturned =>
          /\ \A k \in 1..Len(all_calls) : \A row \in RowsOf(all_calls[k]) :
                Holds(result.calls, row)
          /\ \A k \in 1..Len(all_puts) : \A row \in RowsOf(all_puts[k]) :
                Holds(result.puts, row)

\* The call has returned an in-the-money call that passed the return filter,
\* and an in-the-money put.
C5_Witness ==
    /\ HasReturned /\ in_the_money /\ return_filter
    /\ \E row \in RowsOf(result.calls) : row.inTheMoney
    /\ \E row \in RowsOf(result.puts) : row.inTheMoney

\* The rows of the frames before frame k.
RECURSIVE RowsBefore(_, _)
RowsBefore(frames, k) ==
    IF k <= 1 THEN 0 ELSE RowsBefore(frames, k - 1) + Len(frames[k - 1])

\* The table is the batches one after the other: batch k's rows, in their
\* order, follow the rows of the batches before it, each with the date of its
\* batch and the price of the ticker.
Concatenated(table, frames) ==
    /\ Len(table) = RowsBefore(frames, Len(frames) + 1)
    /\ \A k \in 1..Len(frames) : \A i \in 1..Len(frames[k]) :
          LET row == table[RowsBefore(frames, k) + i]
          IN  /\ row = [frames[k][i] EXCEPT !.idx = row.idx]
              /\ row.Expiration_Date = expiration_dates[k]
              /\ row.Stock_Price = stock_price

\* Every batch is tagged with its own date and the ticker's price.
Tagged(frames) ==
    \A k \in 1..Len(frames) : \A row \in RowsOf(frames[k]) :
        row.Expiration_Date = expiration_dates[k] /\ row.Stock_Price = stock_price

\* C6: the combined calls and the combined puts are the per-date batches one
\* after the other: as many rows as the batches have together, none lost,
\* doubled or merged, the rows of an earlier date before those of a later
\* one, each with the expiration date of its batch and the ticker's price.
C6_OrderedConcatenation ==
    /\ Tagged(all_calls) /\ Tagged(all_puts)
    /\ HasReturned =>
          /\ Len(all_calls) = Len(expiration_dates)
          /\ Len(all_puts) = Len(expiration_dates)
          /\ Concatenated(result.calls, all_calls)
          /\ Concatenated(result.puts, all_puts)

\* Two dates, each with a row of its own, have been combined.
C6_Witness ==
    /\ HasReturned
    /\ Len(expiration_dates) = 2
    /\ \/ Len(all_calls[1]) > 0 /\ Len(all_calls[2]) > 0 /\ Len(result.calls) > 1
       \/ Len(all_puts[1]) > 0 /\ Len(all_puts[2]) > 0 /\ Len(result.puts) > 1

-----------------------------------------------------------------------------
(* Claims about build_pivot_table (SpecPivot) *)

Built == pc = "pivot_return"

Strikes == {data[i].strike : i \in 1..Len(data)}

Dates == {data[i].Expiration_Date : i \in 1..Len(data)}

\* The positions in data of the rows of a strike and an expiration date.
Pair(strike, date) ==
    {i \in 1..Len(data) : data[i].strike = strike /\ data[i].Expiration_Date = date}

Metric(i, metric) ==
    IF metric = "bid" THEN data[i].bid ELSE data[i].Annualized_Return

\* The sum of a metric over positions of data.
RECURSIVE Total(_, _)
Total(positions, metric) ==
    IF positions = {} THEN N(0)
    ELSE LET i == CHOOSE j \in positions : TRUE
         IN  FAdd(Metric(i, metric), Total(positions \ {i}, metric))

Cell(strike, date, metric) == pivot.cell[<<strike, <<date, metric>>>>]

\* C7: the pivot table has a cell for every strike, expiration date and
\* metric (bid, Annualized Return) of the batch: where one row has the
\* strike and the date the cell is that row's value exactly, where several
\* have them it is their arithmetic mean, and where none has them it is the
\* no-value marker (NaN), never 0.
C7_PivotCells ==
    Built =>
        \A strike \in Strikes : \A date \in Dates :
            \A metric \in {"bid", "Annualized Return"} :
                LET rows == Pair(strike, date)
                    cell == Cell(strike, date, metric)
                IN  /\ rows = {} => IsNaN(cell)
                    /\ \A i \in rows : rows = {i} => cell = Metric(i, metric)
                    /\ rows # {} =>
                          FMul(cell, N(Cardinality(rows))) = Total(rows, metric)

\* A table has been built of two rows sharing a strike and a date with
\* different bids and a third row of another strike and another date.
C7_Witness ==
    /\ Built
    /\ \E i, j, k \in 1..Len(data) :
          /\ i # j
          /\ data[i].strike = data[j].strike
          /\ data[i].Expiration_Date = data[j].Expiration_Date
          /\ data[i].bid # data[j].bid
          /\ data[k].strike # data[i].strike
          /\ data[k].Expiration_Date # data[i].Expiration_Date
          /\ IsNaN(Cell(data[k].strike, data[i].Expiration_Date, "bid"))
          /\ Cell(data[i].strike, data[i].Expiration_Date, "bid") # data[i].bid

-----------------------------------------------------------------------------
(* Claims about a run of __main__ (Spec) *)

Entries == 1..Len(log)

\* The place of a ticker in the list.
Position(ticker) == CHOOSE k \in 1..Len(tickers) : tickers[k] = ticker

Artifacts(ticker) ==
    {r \in reports : r.ticker = ticker} \cup {c \in pivots : c.ticker = ticker}

\* The quote source had no expiration date for the ticker.
NoOptions(ticker) ==
    \E i \in Entries :
        log[i].ticker = ticker /\ log[i].op = "info" /\ log[i].ok /\ log[i].dates = <<>>

\* A request for the ticker failed.
FetchFailed(ticker) == \E i \in Entries : log[i].ticker = ticker /\ ~log[i].ok

\* C2: a ticker for which the quote source returns no expiration date gets no
\* report and no pivot CSV, and the run raises no exception.
C2_NoOptionsNoException ==
    \A k \in 1..Len(tickers) :
        NoOptions(tickers[k]) => Artifacts(tickers[k]) = {} /\ exception = "none"

Ended == pc \in {"done", "crashed"}

\* C3: a ticker without price or options chain, or whose fetch fails, is
\* skipped without output and the run goes on: when the run has ended every
\* ticker of the list was either skipped so or has its report and its two
\* pivot CSVs.
C3_RunGoesOn ==
    Ended =>
        \A k \in 1..Len(tickers) :
            IF NoOptions(tickers[k]) \/ FetchFailed(tickers[k])
            THEN Artifacts(tickers[k]) = {}
            ELSE Cardinality(Artifacts(tickers[k])) = 3

\* The requests made for a ticker, in the order made.
RequestsOf(ticker) == SelectSeq(log, LAMBDA e : e.ticker = ticker)

\* The requests of one ticker: the price and the dates once, first, then the
\* chains of the dates returned, one each, in the order returned, up to the
\* first that fails.
InOrder(requests) ==
    /\ requests # <<>> =>
          /\ requests[1].op = "info"
          /\ Len(requests) - 1 <= Len(requests[1].dates)
    /\ \A i \in 2..Len(requests) :
          /\ requests[i].op = "chain"
          /\ requests[i].date = requests[1].dates[i - 1]
          /\ requests[i - 1].ok

InCall == pc \in {"fetch_info", "fetch_loop", "fetch_raised", "fetch_returned"}

AllFetched(ticker) ==
    LET requests == RequestsOf(ticker)
    IN  /\ requests # <<>>
        /\ \A i \in 1..Len(requests) : requests[i].ok
        /\ Len(requests) = Len(requests[1].dates) + 1
        /\ requests[1].dates # <<>>

\* C10: a ticker's report and pivot CSVs are written only once the chain of
\* every one of its expiration dates has been fetched and calculated; a
\* ticker whose fetch failed at some date has no artifact; and a report lists
\* the calls before the puts.
C10_ArtifactsAfterAllFetches ==
    /\ \A k \in 1..Len(tickers) :
          /\ Artifacts(tickers[k]) # {} =>
                /\ AllFetched(tickers[k])
                /\ k < ti \/ (k = ti /\ pc = "write_pivots")
          /\ FetchFailed(tickers[k]) => Artifacts(tickers[k]) = {}
    /\ \A r \in reports :
          /\ r.text[2].line = "Calls with Annualized Returns:"
          /\ r.text[3].line = "Puts with Annualized Returns:"
          /\ \A row \in RowsOf(r.text[2].table) \cup RowsOf(r.text[3].table) :
                row.Expiration_Date \in
                    {RequestsOf(r.ticker)[1].dates[i] :
                        i \in 1..Len(RequestsOf(r.ticker)[1].dates)}
    /\ pc = "write_pivots" =>
          \E r \in reports :
              /\ r.ticker = tickers[ti]
              /\ r.text[2].table = calls
              /\ r.text[3].table = puts

\* The run ended on a ticker whose second date failed after its first date
\* was fetched, the ticker before it having its artifacts.
C10_Witness ==
    /\ pc = "crashed"
    /\ Len(tickers) = 2
    /\ Cardinality(Artifacts(tickers[1])) = 3
    /\ Len(RequestsOf(tickers[2])) = 3
    /\ ~RequestsOf(tickers[2])[3].ok
    /\ Artifacts(tickers[2]) = {}

=============================================================================
